---- MODULE Spec2Model ----
(***************************************************************************)
(* Causal-provenance tracer of entcausal/queries/causality.go.             *)
(*                                                                         *)
(* TraceCausality is a breadth-first walk backwards from an external       *)
(* output.  The walk itself (normalisation of maxDepth, the queue, the     *)
(* visited set, the node and edge lists, the loop condition) is taken from *)
(* the source.  The parent fetch getParentNodes is a placeholder in the    *)
(* source (it returns nil, nil); here it answers from a store, as the      *)
(* store contract GetParents describes, so that the walk has a graph to    *)
(* walk.  The store is outside the program and write-once: the parents of  *)
(* a node are fixed by the first fetch of the node (any set of ids within  *)
(* the edge bound), so the walks range over every store over the ids.  The *)
(* parents of a node come back in ascending id order.  The placeholder of  *)
(* the source is the store that answers every fetch with no parents.       *)
(*                                                                         *)
(* Left out: timestamps (Timestamp, TracedAt), Metadata, TotalLatencyMs,   *)
(* EdgeType and Confidence; no claim reads them.                           *)
(***************************************************************************)
EXTENDS Integers, Sequences, FiniteSets

\* Number of node ids the store holds.
NumNodes == 4

\* Number of causal edges the store holds at most.
MaxEdges == 4

\* Largest maxDepth argument a caller passes; the smallest is -1.
MaxDepthArg == 2

\* Default ceiling of TraceCausality.
DefaultMaxDepth == 100

\* The ids of the nodes in the store.
Ids == 1..NumNodes

\* An id that no node of the store has.
Missing == NumNodes + 1

\* The output ids a caller asks for.
OutputIds == {Missing} \cup Ids

\* The maxDepth arguments a caller passes.
DepthArgs == (-1)..MaxDepthArg

VARIABLES
    store,      \* the store: node id -> set of the ids of its causal parents
                \* ({} until the first fetch of the node fixes it)
    failing,    \* the node ids whose parent fetch fails in the store
    outputID,   \* argument of the call
    depthArg,   \* argument maxDepth as the caller passed it
    maxDepth,   \* the local maxDepth (reassigned by the normalisation)
    path,       \* *CausalPath under construction: Nodes, Edges, Depth
    visited,    \* map[string]bool, as the set of keys mapped to true
    queue,      \* the frontier: sequence of [id, nodeType, depth]
    pc,         \* "start", "loop", "done"
    ret,        \* what the call returned: [returned, path, err]
    fetched,    \* the ids getParentNodes was called with, in call order
    cancelled,  \* ctx has been cancelled
    views,      \* what the last GetSpikeEvents, GetDecisions or CountByType
                \* call on path returned
    counts,     \* the store's spike events of the window: fingerprint ->
                \* number of occurrences
    minOccurrences, \* argument of FindEmergentPatterns
    patterns,   \* what FindEmergentPatterns returned: [returned, results, err]
    actionID,   \* argument of GetAgentDecisionPath
    report,     \* what GetAgentDecisionPath returned: [returned, path, err]
    second      \* a second TraceCausality call running against the store

\* The state of the operations beside the TraceCausality call.
auxVars == <<views, counts, minOccurrences, patterns, actionID, report, second>>

vars == <<store, failing, outputID, depthArg, maxDepth, path, visited, queue,
          pc, ret, fetched, cancelled, views, counts, minOccurrences,
          patterns, actionID, report, second>>

\* Nothing has been returned yet.
NoReturn ==
    [returned |-> FALSE,
     path |-> [Nodes |-> <<>>, Edges |-> <<>>, Depth |-> 0],
     err |-> "nil"]

----------------------------------------------------------------------------
\* Helpers

max(a, b) == IF a > b THEN a ELSE b

\* The ascending sequence of the ids of a set of node ids.
SortedSeq(S) == SelectSeq([i \in 1..NumNodes |-> i], LAMBDA i : i \in S)

\* The type of the causal parents of a node of type t.
ParentType(t) ==
    CASE t = "external_output"    -> "workflow_execution"
      [] t = "workflow_execution" -> "agent_action"
      [] t = "agent_action"       -> "routing_decision"
      [] t = "routing_decision"   -> "spike_event"
      [] OTHER                    -> "none"

\* Does the store answer the parent fetch for nodeID with parents?
HasParents(st, fl, nodeID, nodeType) ==
    /\ nodeID \in DOMAIN st
    /\ nodeID \notin fl
    /\ ParentType(nodeType) # "none"

\* The ids of the parents the fetch for nodeID returns.
ParentIds(st, fl, nodeID, nodeType) ==
    IF HasParents(st, fl, nodeID, nodeType) THEN st[nodeID] ELSE {}

\* getParentNodes: the parents of a node and the edges to them.
getParentNodes(st, fl, nodeID, nodeType) ==
    LET ps == SortedSeq(ParentIds(st, fl, nodeID, nodeType))
    IN  [parents |-> [i \in 1..Len(ps) |->
                        [ID |-> ps[i], Type |-> ParentType(nodeType)]],
         edges   |-> [i \in 1..Len(ps) |->
                        [SourceID |-> nodeID, SourceType |-> nodeType,
                         TargetID |-> ps[i],
                         TargetType |-> ParentType(nodeType)]]]

----------------------------------------------------------------------------
\* TraceCausality, piece by piece

\* Variant: zero is taken as a ceiling of its own.
NormalizeDepthNegative(d) == IF d < 0 THEN DefaultMaxDepth ELSE d

\* maxDepth after the normalisation of non-positive values.
NormalizeDepth(d) == IF d <= 0 THEN DefaultMaxDepth ELSE d

\* The path before the loop.
NewPath == [Nodes |-> <<>>, Edges |-> <<>>, Depth |-> 0]

\* Variant: the output node starts at depth 1.
InitialQueueDepthOne(out) ==
    <<[id |-> out, nodeType |-> "external_output", depth |-> 1]>>

\* The queue before the loop: the output node.
InitialQueue(out) ==
    <<[id |-> out, nodeType |-> "external_output", depth |-> 0]>>

\* Variant: the loop stops as soon as the ceiling is reached.
LoopCondStrict(q, p, md) == Len(q) > 0 /\ p.Depth < md

\* The loop condition.
LoopCond(q, p, md) == Len(q) > 0 /\ p.Depth <= md

\* Variant: a dequeued entry is never skipped.
AlreadyVisitedNever(vis, id) == FALSE

\* The test that skips a dequeued entry.
AlreadyVisited(vis, id) == id \in vis

\* The node recorded for a dequeued entry.
NodeOf(current) ==
    [ID |-> current.id, Type |-> current.nodeType, Depth |-> current.depth]

\* The path after recording the node.
AddNode(p, current) ==
    [p EXCEPT !.Nodes = Append(@, NodeOf(current)),
              !.Depth = max(@, current.depth)]

\* Variant: only the edges to parents not yet recorded are kept.
AddEdgesToNew(p, edges) ==
    [p EXCEPT !.Edges = @ \o SelectSeq(edges,
        LAMBDA e : \A i \in 1..Len(p.Nodes) : p.Nodes[i].ID # e.TargetID)]

\* The path after recording the fetched edges.
AddEdges(p, edges) == [p EXCEPT !.Edges = @ \o edges]

\* Variant: a parent is enqueued at the depth of its child.
EntryOfSameDepth(parent, current) ==
    [id |-> parent.ID, nodeType |-> parent.Type, depth |-> current.depth]

\* The queue entry of a fetched parent.
EntryOf(parent, current) ==
    [id |-> parent.ID, nodeType |-> parent.Type, depth |-> current.depth + 1]

\* Variant: the parents that are not visited are pushed on the front.
EnqueueFront(q, parents, vis, current) ==
    LET new == SelectSeq(parents, LAMBDA x : x.ID \notin vis)
    IN  [i \in 1..Len(new) |->
            [id |-> new[i].ID, nodeType |-> new[i].Type,
             depth |-> current.depth + 1]] \o q

\* The queue after enqueuing the parents that are not visited.
RECURSIVE Enqueue(_, _, _, _)
Enqueue(q, parents, vis, current) ==
    IF parents = <<>> THEN q
    ELSE Enqueue(IF Head(parents).ID \notin vis
                 THEN Append(q, EntryOf(Head(parents), current)) ELSE q,
                 Tail(parents), vis, current)

\* One iteration of the loop on the frame f = [path, visited, queue], got
\* being what the parent fetch for the dequeued entry returns.
LoopStep(f, got) ==
    LET current == Head(f.queue)
        rest    == Tail(f.queue)
    IN  IF AlreadyVisited(f.visited, current.id)
        THEN [f EXCEPT !.queue = rest]
        ELSE LET vis == f.visited \cup {current.id}
             IN  [path    |-> AddEdges(AddNode(f.path, current), got.edges),
                  visited |-> vis,
                  queue   |-> Enqueue(rest, got.parents, vis, current)]

\* One iteration of the loop on the store st.
LoopBody(f, st, fl) ==
    LoopStep(f, getParentNodes(st, fl, Head(f.queue).id,
                               Head(f.queue).nodeType))

\* The frame the loop starts from.
FirstFrame(out) ==
    [path |-> NewPath, visited |-> {}, queue |-> InitialQueue(out)]

\* The frame the loop ends with.
RECURSIVE RunLoop(_, _, _, _)
RunLoop(f, md, st, fl) ==
    IF LoopCond(f.queue, f.path, md)
    THEN RunLoop(LoopBody(f, st, fl), md, st, fl)
    ELSE f

\* A sequence back to front.
Reverse(sq) == [i \in 1..Len(sq) |-> sq[Len(sq) + 1 - i]]

\* The parent fetch of a store that returns the parents of a node in
\* descending id order.
getParentNodesDescending(st, fl, nodeID, nodeType) ==
    LET got == getParentNodes(st, fl, nodeID, nodeType)
    IN  [parents |-> Reverse(got.parents), edges |-> Reverse(got.edges)]

\* The frame the loop ends with on the store that answers in descending
\* order.
RECURSIVE RunLoopDescending(_, _, _, _)
RunLoopDescending(f, md, st, fl) ==
    IF LoopCond(f.queue, f.path, md)
    THEN RunLoopDescending(
             LoopStep(f, getParentNodesDescending(st, fl, Head(f.queue).id,
                                                  Head(f.queue).nodeType)),
             md, st, fl)
    ELSE f

\* The path TraceCausality(out, d) returns on store st.
TraceResult(st, fl, out, d) ==
    RunLoop(FirstFrame(out), NormalizeDepth(d), st, fl).path

----------------------------------------------------------------------------
\* The call as a state machine

Frame == [path |-> path, visited |-> visited, queue |-> queue]

\* The ids whose parents have been fetched, by either call.
Known ==
    {fetched[i] : i \in 1..Len(fetched)}
        \cup {second.fetched[i] : i \in 1..Len(second.fetched)}

\* The number of edges of the store st.
RECURSIVE EdgeCount(_, _)
EdgeCount(st, S) ==
    IF S = {} THEN 0
    ELSE LET i == CHOOSE x \in S : TRUE
         IN  Cardinality(st[i]) + EdgeCount(st, S \ {i})

\* The ids that have parents or are parents in the store, and the most
\* edges of the store: one less of each when two calls run against it.
StoreIds == IF second.pc = "idle" THEN Ids ELSE 1..(NumNodes - 1)

StoreEdges == IF second.pc = "idle" THEN MaxEdges ELSE MaxEdges - 1

\* The parent sets the store may hold for a node that is fetched.
Answers(id) ==
    IF id \in Ids /\ id \notin Known /\ id \notin failing
    THEN LET used == EdgeCount(store, Ids)
         IN  IF id \in StoreIds
             THEN {S \in SUBSET StoreIds : Cardinality(S) + used <= StoreEdges}
             ELSE {{}}
    ELSE {IF id \in Ids THEN store[id] ELSE {}}

\* The store once the parents of id are known to be S.
Reveal(st, id, S) == IF id \in Ids THEN [st EXCEPT ![id] = S] ELSE st

\* The pattern fingerprints of the store's spike events.
Fingerprints == {"A", "B"}

\* No projection of the path has been asked for.
NoViews == [op |-> "none", nodes |-> <<>>, counts |-> <<>>]

\* FindEmergentPatterns has not returned.
NoPatterns == [returned |-> FALSE, results |-> <<>>, err |-> "nil"]

\* GetAgentDecisionPath has not returned.
NoReport ==
    [returned |-> FALSE,
     path |-> [AgentID |-> "", ActionID |-> Missing, SpikeEvents |-> <<>>,
               Decisions |-> <<>>, Workflows |-> <<>>, Outputs |-> <<>>,
               TotalDepth |-> 0],
     err |-> "nil"]

\* No second call runs.
NoCall ==
    [outputID |-> Missing, depthArg |-> 0, maxDepth |-> 0, path |-> NewPath,
     visited |-> {}, queue |-> <<>>, pc |-> "idle", ret |-> NoReturn,
     fetched |-> <<>>]

IdleViews == views = NoViews

IdlePatterns ==
    /\ counts = [f \in Fingerprints |-> 0]
    /\ minOccurrences = 0
    /\ patterns = NoPatterns

IdleAgent ==
    /\ actionID = Missing
    /\ report = NoReport

IdleSecond == second = NoCall

InitCall ==
    /\ IdleViews /\ IdlePatterns /\ IdleAgent /\ IdleSecond
    /\ store = [i \in Ids |-> {}]
    /\ outputID \in OutputIds
    /\ depthArg \in DepthArgs
    /\ maxDepth = depthArg
    /\ path = NewPath
    /\ visited = {}
    /\ queue = <<>>
    /\ pc = "start"
    /\ ret = NoReturn
    /\ fetched = <<>>
    /\ cancelled = FALSE

Init ==
    /\ failing = {}
    /\ InitCall

\* Lines 92-109: normalise maxDepth, build the path, the visited set, the queue.
Enter ==
    /\ pc = "start"
    /\ maxDepth' = NormalizeDepth(maxDepth)
    /\ path' = NewPath
    /\ visited' = {}
    /\ queue' = InitialQueue(outputID)
    /\ pc' = "loop"
    /\ UNCHANGED <<store, failing, outputID, depthArg, ret, fetched, cancelled>>
    /\ UNCHANGED auxVars

\* Lines 111-117: the dequeued entry is visited already.
Skip ==
    /\ pc = "loop"
    /\ LoopCond(queue, path, maxDepth)
    /\ AlreadyVisited(visited, Head(queue).id)
    /\ LET f == LoopBody(Frame, store, failing)
       IN  /\ path' = f.path
           /\ visited' = f.visited
           /\ queue' = f.queue
    /\ UNCHANGED <<store, failing, outputID, depthArg, maxDepth, pc, ret,
                   fetched, cancelled>>
    /\ UNCHANGED auxVars

\* Lines 111-143: the dequeued entry is new: record it, fetch its parents.
Visit ==
    /\ pc = "loop"
    /\ LoopCond(queue, path, maxDepth)
    /\ ~AlreadyVisited(visited, Head(queue).id)
    /\ \E S \in Answers(Head(queue).id) :
         /\ store' = Reveal(store, Head(queue).id, S)
         /\ LET f == LoopBody(Frame, store', failing)
            IN  /\ path' = f.path
                /\ visited' = f.visited
                /\ queue' = f.queue
    /\ fetched' = Append(fetched, Head(queue).id)
    /\ UNCHANGED <<failing, outputID, depthArg, maxDepth, pc, ret, cancelled>>
    /\ UNCHANGED auxVars

\* Lines 111, 146: the loop is over, the path is returned with a nil error.
Return ==
    /\ pc = "loop"
    /\ ~LoopCond(queue, path, maxDepth)
    /\ ret' = [returned |-> TRUE, path |-> path, err |-> "nil"]
    /\ pc' = "done"
    /\ UNCHANGED <<store, failing, outputID, depthArg, maxDepth, path, visited,
                   queue, fetched, cancelled>>
    /\ UNCHANGED auxVars

Next == Enter \/ Skip \/ Visit \/ Return

Spec == Init /\ [][Next]_vars

\* A store in which the parent fetch of one node fails.
InitFail ==
    /\ failing \in {{i} : i \in Ids}
    /\ InitCall

SpecFail == InitFail /\ [][Next]_vars

\* The caller cancels ctx while the call runs.
Cancel ==
    /\ pc \in {"start", "loop"}
    /\ ~cancelled
    /\ cancelled' = TRUE
    /\ UNCHANGED <<store, failing, outputID, depthArg, maxDepth, path, visited,
                   queue, pc, ret, fetched>>
    /\ UNCHANGED auxVars

NextCancel == Enter \/ Skip \/ Visit \/ Return \/ Cancel

SpecCancel == Init /\ [][NextCancel]_vars

----------------------------------------------------------------------------
\* Vocabulary of the properties

\* The elements of a sequence.
Range(sq) == {sq[i] : i \in 1..Len(sq)}

\* The ids of the recorded nodes.
NodeIds == {n.ID : n \in Range(path.Nodes)}

\* How many recorded nodes have this id.
Count(id) == Cardinality({i \in 1..Len(path.Nodes) : path.Nodes[i].ID = id})

\* Is there a recorded edge from a to p?
HasEdge(a, p) == \E e \in Range(path.Edges) : e.SourceID = a /\ e.TargetID = p

\* The ids the parent fetch returns for a recorded node.
ParentsOfNode(n) == ParentIds(store, failing, n.ID, n.Type)

\* The recorded nodes whose parent fetch returned p.
Children(p) == {n \in Range(path.Nodes) : p \in ParentsOfNode(n)}

\* Two nodes of kids have different ids.
TwoOf(kids) == \E a, b \in kids : a.ID # b.ID

\* Two recorded nodes with different ids, neither of them p, share the
\* parent p.
FanIn(p) == TwoOf({n \in Children(p) : n.ID # p})

\* The edges the parent fetches of the nodes of a list return, in list order.
RECURSIVE FetchedEdges(_)
FetchedEdges(nodes) ==
    IF nodes = <<>> THEN <<>>
    ELSE getParentNodes(store, failing, Head(nodes).ID, Head(nodes).Type).edges
         \o FetchedEdges(Tail(nodes))

\* Number of hops of a shortest path from the ids of frontier to dst along
\* the edges E, plus d; -1 when there is no path.
RECURSIVE DistFrom(_, _, _, _, _)
DistFrom(E, frontier, seen, dst, d) ==
    IF dst \in frontier THEN d
    ELSE IF frontier = {} THEN -1
    ELSE LET reached == seen \cup frontier
             nxt == {e.TargetID : e \in {x \in E : x.SourceID \in frontier}}
         IN  DistFrom(E, nxt \ reached, reached, dst, d + 1)

\* BFS distance from the root to id along the recorded edges.
Dist(id) == DistFrom(Range(path.Edges), {outputID}, {}, id, 0)

\* The largest Depth among the recorded nodes.
MaxNodeDepth ==
    CHOOSE d \in {n.Depth : n \in Range(path.Nodes)} :
        \A n \in Range(path.Nodes) : n.Depth <= d

\* The ids reachable from the root in the store, level by level along the
\* five-level chain (frontier holds the ids of one level, of type t).
RECURSIVE ReachFrom(_, _, _)
ReachFrom(frontier, seen, t) ==
    IF frontier = {} \/ ParentType(t) = "none" THEN seen \cup frontier
    ELSE LET reached == seen \cup frontier
             nxt == UNION {IF i \in Ids THEN store[i] ELSE {} : i \in frontier}
         IN  ReachFrom(nxt \ reached, reached, ParentType(t))

Reachable == ReachFrom({outputID}, {}, "external_output")

\* The call has returned and left out nodes the root reaches.
Truncated == pc = "done" /\ Reachable \ NodeIds # {}

----------------------------------------------------------------------------
C5_MissingRootFails ==
    (pc = "done" /\ outputID \notin Ids) => ret.err # "nil"

C9_RootOnly ==
    (pc = "done" /\ (outputID \in Ids => store[outputID] = {})) =>
        /\ ret.path.Nodes =
             <<[ID |-> outputID, Type |-> "external_output", Depth |-> 0]>>
        /\ ret.path.Edges = <<>>
        /\ ret.path.Depth = 0
        /\ ret.err = "nil"

\* A returned call on an output of the store that has no parents.
C9_Witness ==
    /\ pc = "done" /\ outputID \in Ids
    /\ store[outputID] = {}
    /\ fetched = <<outputID>>

\* C10: once ctx is cancelled no parent fetch is issued any more.
C10_NoFetchAfterCancel == [][cancelled => fetched' = fetched]_vars

----------------------------------------------------------------------------
\* Vocabulary of the properties on the order and the extent of the walk

\* The ids of a list of nodes, in list order.
IdsOf(nodes) == [i \in 1..Len(nodes) |-> nodes[i].ID]

\* The target ids of a list of edges in the order of their first
\* occurrence, the ids of skip left out.
RECURSIVE FirstTargets(_, _)
FirstTargets(edges, skip) ==
    IF edges = <<>> THEN <<>>
    ELSE LET t == Head(edges).TargetID
         IN  IF t \in skip THEN FirstTargets(Tail(edges), skip)
             ELSE <<t>> \o FirstTargets(Tail(edges), skip \cup {t})

\* Is the sequence a the beginning of the sequence b?
IsPrefix(a, b) == Len(a) <= Len(b) /\ \A i \in 1..Len(a) : a[i] = b[i]

\* The ids the root reaches in the store by at most k parent hops, level by
\* level along the five-level chain.
RECURSIVE WithinFrom(_, _, _, _)
WithinFrom(frontier, seen, t, k) ==
    IF frontier = {} \/ k = 0 \/ ParentType(t) = "none"
    THEN seen \cup frontier
    ELSE LET reached == seen \cup frontier
             nxt == UNION {IF i \in Ids THEN store[i] ELSE {} : i \in frontier}
         IN  WithinFrom(nxt \ reached, reached, ParentType(t), k - 1)

WithinHops(k) == WithinFrom({outputID}, {}, "external_output", k)

----------------------------------------------------------------------------
----------------------------------------------------------------------------
\* A loop iteration discards a queue entry whose id is visited.
Discards ==
    /\ Head(queue).id \in visited
    /\ queue' = Tail(queue)
    /\ visited' = visited /\ path' = path /\ fetched' = fetched

\* A loop iteration visits a node that was not visited, with one fetch.
VisitsNew ==
    /\ Head(queue).id \notin visited
    /\ visited' = visited \cup {Head(queue).id}
    /\ Len(path'.Nodes) = Len(path.Nodes) + 1
    /\ fetched' = Append(fetched, Head(queue).id)

\* No id was fetched twice, so the fetches are at most the distinct ids.
FetchesBounded(f) ==
    /\ \A i, j \in 1..Len(f) : i # j => f[i] # f[j]
    /\ Len(f) <= Cardinality(Ids \cup {outputID})

\* What is left to do: 0 once the call has returned; in the loop, one for
\* the return, one for every queue entry, and NumNodes + 1 for every id
\* that is not visited (a visit frees one id and enqueues at most NumNodes
\* parents).
Rank ==
    CASE pc = "done"  -> 0
      [] pc = "loop"  -> 1 + Len(queue)
                         + (NumNodes + 1)
                           * Cardinality((Ids \cup {outputID}) \ visited)
      [] OTHER        -> 3 + (NumNodes + 1) * (NumNodes + 1)

----------------------------------------------------------------------------
\* The path the call returns when the same store answers every parent fetch
\* in descending id order.
DescendingPath ==
    RunLoopDescending(FirstFrame(outputID), maxDepth, store, failing).path

\* The (id, depth) pairs of a list of nodes.
IdDepths(nodes) == {<<n.ID, n.Depth>> : n \in Range(nodes)}

----------------------------------------------------------------------------
\* TraceCausalitySQL: the rows its recursive query selects on the store

\* The id of a row that a LEFT JOIN found no match for.
Null == Missing + 1

\* The level of a node type in the five-level chain.
LevelOfType(t) ==
    CASE t = "external_output"    -> 0
      [] t = "workflow_execution" -> 1
      [] t = "agent_action"       -> 2
      [] t = "routing_decision"   -> 3
      [] OTHER                    -> 4

\* The rows of the table of type t: the ids of st on that level under out.
Table(st, out, t) ==
    LET within(k) == WithinFrom({out} \cap Ids, {}, "external_output", k)
        lvl == LevelOfType(t)
    IN  IF lvl = 0 THEN {out} \cap Ids
        ELSE {i \in within(lvl) \ within(lvl - 1) :
                 \E c \in within(lvl - 1) : i \in st[c]}

\* The store keeps the five-level schema: the requested output exists and
\* the parents of every node are nodes of the next level only.
FollowsSchema(st, out) ==
    /\ out \in Ids
    /\ \A t \in {"external_output", "workflow_execution", "agent_action",
                 "routing_decision", "spike_event"} :
           \A i \in Table(st, out, t) :
               IF ParentType(t) = "none" THEN st[i] = {}
               ELSE st[i] \subseteq Table(st, out, ParentType(t))

\* LEFT JOIN of a row holding id through the association table from the
\* table of type t to its parent table: the matching parent ids, or one
\* Null when there is no match.
LeftJoin(st, out, id, t) ==
    LET hits == IF id \in Table(st, out, t)
                THEN st[id] \cap Table(st, out, ParentType(t))
                ELSE {}
    IN  IF hits = {} THEN {Null} ELSE hits

\* The joined rows of the recursive case for the chain row cc: the chain of
\* LEFT JOINs starts at cc.id = weo.external_output_id.
JoinedRows(st, out, cc) ==
    {j \in [we : Ids \cup {Null}, aa : Ids \cup {Null},
            rd : Ids \cup {Null}, se : Ids \cup {Null}] :
        /\ j.we \in LeftJoin(st, out, cc.id, "external_output")
        /\ j.aa \in LeftJoin(st, out, j.we, "workflow_execution")
        /\ j.rd \in LeftJoin(st, out, j.aa, "agent_action")
        /\ j.se \in LeftJoin(st, out, j.rd, "routing_decision")}

\* The rows the recursive case selects for the chain row cc.
RecursiveCase(st, out, cc) ==
    {[id        |-> CASE cc.node_type = "external_output"    -> j.we
                      [] cc.node_type = "workflow_execution" -> j.aa
                      [] cc.node_type = "agent_action"       -> j.rd
                      [] cc.node_type = "routing_decision"   -> j.se
                      [] OTHER                               -> Null,
      node_type |-> ParentType(cc.node_type),
      depth     |-> cc.depth + 1] : j \in JoinedRows(st, out, cc)}

\* causal_chain: the rows added from the rows of the last round on, under
\* WHERE cc.depth < maxDepth.
RECURSIVE CausalChain(_, _, _, _)
CausalChain(st, out, last, d) ==
    LET nxt == UNION {RecursiveCase(st, out, cc) :
                          cc \in {r \in last : r.depth < d}}
    IN  IF nxt = {} THEN last
        ELSE last \cup CausalChain(st, out, nxt, d)

\* The rows the query of TraceCausalitySQL(out, d) selects on the store st.
TraceCausalitySQL(st, out, d) ==
    LET base == {[id |-> i, node_type |-> "external_output", depth |-> 0] :
                     i \in {out} \cap Ids}
    IN  {r \in CausalChain(st, out, base, d) : r.id # Null}

\* The Nodes of a path as (id, node type, depth) rows.
NodeRows(nodes) ==
    {[id |-> n.ID, node_type |-> n.Type, depth |-> n.Depth] :
         n \in Range(nodes)}

----------------------------------------------------------------------------
\* The projections of a CausalPath: GetSpikeEvents, GetDecisions, CountByType

\* The longest Nodes list of the paths the projections are applied to.
MaxPathLen == 4

NodeTypes ==
    {"external_output", "workflow_execution", "agent_action",
     "routing_decision", "spike_event"}

\* The loop body of a projection that keeps every node.
AppendIfTypeAlways(events, node, t) == Append(events, node)

\* Lines 299-303, 310-314: the loop body of GetSpikeEvents and GetDecisions.
AppendIfType(events, node, t) ==
    IF node.Type = t THEN Append(events, node) ELSE events

\* The range loop over nodes, appending to events.
RECURSIVE NodesOfType(_, _, _)
NodesOfType(events, nodes, t) ==
    IF nodes = <<>> THEN events
    ELSE NodesOfType(AppendIfType(events, Head(nodes), t), Tail(nodes), t)

GetSpikeEvents(p) == NodesOfType(<<>>, p.Nodes, "spike_event")

GetDecisions(p) == NodesOfType(<<>>, p.Nodes, "routing_decision")

\* counts[t]++ on a map in which a missing key reads as 0.
Increment(m, t) ==
    [x \in DOMAIN m \cup {t} |->
        IF x = t THEN (IF t \in DOMAIN m THEN m[t] ELSE 0) + 1 ELSE m[x]]

\* The range loop of CountByType over nodes, from the map m on.
RECURSIVE CountNodes(_, _)
CountNodes(m, nodes) ==
    IF nodes = <<>> THEN m
    ELSE CountNodes(Increment(m, Head(nodes).Type), Tail(nodes))

CountByType(p) == CountNodes(<<>>, p.Nodes)

\* The paths the projections are applied to: any list of typed nodes.
Paths ==
    {[NewPath EXCEPT !.Nodes = [i \in 1..Len(ts) |->
                                   [ID |-> i, Type |-> ts[i],
                                    Depth |-> 4 - LevelOfType(ts[i])]]] :
        ts \in UNION {[1..n -> NodeTypes] : n \in 0..MaxPathLen}}

InitViews ==
    /\ IdleViews /\ IdlePatterns /\ IdleAgent /\ IdleSecond
    /\ store = [i \in Ids |-> {}]
    /\ failing = {}
    /\ outputID = Missing
    /\ depthArg = 0
    /\ maxDepth = 0
    /\ path \in Paths
    /\ visited = {}
    /\ queue = <<>>
    /\ pc = "path"
    /\ ret = NoReturn
    /\ fetched = <<>>
    /\ cancelled = FALSE

\* What a projection leaves alone: everything but its result.
ViewFrame ==
    <<store, failing, outputID, depthArg, maxDepth, path, visited, queue, pc,
      ret, fetched, cancelled, counts, minOccurrences, patterns, actionID,
      report, second>>

CallGetSpikeEvents ==
    /\ pc = "path"
    /\ views' = [op |-> "GetSpikeEvents", nodes |-> GetSpikeEvents(path),
                 counts |-> <<>>]
    /\ UNCHANGED ViewFrame

CallGetDecisions ==
    /\ pc = "path"
    /\ views' = [op |-> "GetDecisions", nodes |-> GetDecisions(path),
                 counts |-> <<>>]
    /\ UNCHANGED ViewFrame

CallCountByType ==
    /\ pc = "path"
    /\ views' = [op |-> "CountByType", nodes |-> <<>>,
                 counts |-> CountByType(path)]
    /\ UNCHANGED ViewFrame

NextViews == CallGetSpikeEvents \/ CallGetDecisions \/ CallCountByType

SpecViews == InitViews /\ [][NextViews]_vars

\* The positions of the nodes of type t in Nodes.
PositionsOf(t) == {i \in 1..Len(path.Nodes) : path.Nodes[i].Type = t}

\* The sum of the values of the map m.
RECURSIVE SumOf(_, _)
SumOf(m, keys) ==
    IF keys = {} THEN 0
    ELSE LET k == CHOOSE x \in keys : TRUE
         IN  m[k] + SumOf(m, keys \ {k})

\* C12: GetSpikeEvents returns exactly the nodes of Nodes of type
\* spike_event and GetDecisions those of type routing_decision, in their
\* order in Nodes; CountByType maps every type occurring in Nodes to the
\* number of nodes of that type, so the counts sum to len(Nodes); none of the
\* three changes the path.
C12_Projections ==
    /\ [](/\ views.op = "GetSpikeEvents" =>
                views.nodes =
                    SelectSeq(path.Nodes, LAMBDA n : n.Type = "spike_event")
          /\ views.op = "GetDecisions" =>
                views.nodes =
                    SelectSeq(path.Nodes,
                              LAMBDA n : n.Type = "routing_decision")
          /\ views.op = "CountByType" =>
                /\ DOMAIN views.counts = {n.Type : n \in Range(path.Nodes)}
                /\ \A t \in DOMAIN views.counts :
                       views.counts[t] = Cardinality(PositionsOf(t))
                /\ SumOf(views.counts, DOMAIN views.counts) = Len(path.Nodes))
    /\ [][path' = path]_vars

\* A path of two spike events, a routing decision and an agent action, in
\* mixed order, of which GetSpikeEvents returned its two spike events.
C12_Witness ==
    /\ Cardinality(PositionsOf("spike_event")) = 2
    /\ Cardinality(PositionsOf("routing_decision")) = 1
    /\ Cardinality(PositionsOf("agent_action")) = 1
    /\ path.Nodes[1].Type = "spike_event"
    /\ path.Nodes[4].Type = "spike_event"
    /\ views.op = "GetSpikeEvents"
    /\ Len(views.nodes) = 2
    /\ views.nodes[2] = path.Nodes[4]

----------------------------------------------------------------------------
\* FindEmergentPatterns

\* The most occurrences of one fingerprint in the window.
MaxOccurrences == 7

DefaultMinOccurrences == 5

MinOccurrencesArgs == (-1)..MaxOccurrences

\* Lines 187-189.
NormalizeMinOccurrences(m) == IF m <= 0 THEN DefaultMinOccurrences ELSE m

\* Lines 207-208: what FindEmergentPatterns returns, cnt being the spike
\* events of the window by fingerprint and m the normalised minOccurrences.
FindEmergentPatterns(cnt, m) == [results |-> <<>>, err |-> "nil"]

InitPatterns ==
    /\ IdleViews /\ IdleAgent /\ IdleSecond
    /\ counts \in [Fingerprints -> 0..MaxOccurrences]
    /\ minOccurrences \in MinOccurrencesArgs
    /\ patterns = NoPatterns
    /\ store = [i \in Ids |-> {}]
    /\ failing = {}
    /\ outputID = Missing
    /\ depthArg = 0
    /\ maxDepth = 0
    /\ path = NewPath
    /\ visited = {}
    /\ queue = <<>>
    /\ pc = "start"
    /\ ret = NoReturn
    /\ fetched = <<>>
    /\ cancelled = FALSE

\* Lines 181-209: the whole call.
CallFindEmergentPatterns ==
    /\ pc = "start"
    /\ minOccurrences' = NormalizeMinOccurrences(minOccurrences)
    /\ LET got == FindEmergentPatterns(counts, minOccurrences')
       IN  patterns' = [returned |-> TRUE, results |-> got.results,
                        err |-> got.err]
    /\ pc' = "done"
    /\ UNCHANGED <<store, failing, outputID, depthArg, maxDepth, path, visited,
                   queue, ret, fetched, cancelled, views, counts, actionID,
                   report, second>>

NextPatterns == CallFindEmergentPatterns

SpecPatterns == InitPatterns /\ [][NextPatterns]_vars

\* C11: FindEmergentPatterns returns exactly the fingerprints that occur at
\* least minOccurrences times among the spike events of the window, a
\* non-positive minOccurrences counting as 5.
C11_ReturnsFrequentPatterns ==
    patterns.returned =>
        {r.PatternHash : r \in Range(patterns.results)}
            = {f \in Fingerprints :
                   counts[f] >= NormalizeMinOccurrences(minOccurrences)}

----------------------------------------------------------------------------
\* GetAgentDecisionPath

\* The stores the report is asked from: causes carry the larger id.
AgentStores ==
    {st \in [Ids -> SUBSET Ids] :
        /\ \A i \in Ids : \A p \in st[i] : i < p
        /\ EdgeCount(st, Ids) <= MaxEdges}

\* Lines 220-227, 244: the report GetAgentDecisionPath returns.
GetAgentDecisionPath(st, agentID, action) ==
    [path |-> [AgentID |-> agentID, ActionID |-> action,
               SpikeEvents |-> <<>>, Decisions |-> <<>>,
               Workflows |-> <<>>, Outputs |-> <<>>, TotalDepth |-> 0],
     err |-> "nil"]

InitAgent ==
    /\ IdleViews /\ IdlePatterns /\ IdleSecond
    /\ store \in AgentStores
    /\ actionID \in Ids
    /\ report = NoReport
    /\ failing = {}
    /\ outputID = Missing
    /\ depthArg = 0
    /\ maxDepth = 0
    /\ path = NewPath
    /\ visited = {}
    /\ queue = <<>>
    /\ pc = "start"
    /\ ret = NoReturn
    /\ fetched = <<>>
    /\ cancelled = FALSE

\* Lines 215-245: the whole call.
CallGetAgentDecisionPath ==
    /\ pc = "start"
    /\ LET got == GetAgentDecisionPath(store, "agent", actionID)
       IN  report' = [returned |-> TRUE, path |-> got.path, err |-> got.err]
    /\ pc' = "done"
    /\ UNCHANGED <<store, failing, outputID, depthArg, maxDepth, path, visited,
                   queue, ret, fetched, cancelled, views, counts,
                   minOccurrences, patterns, actionID, second>>

NextAgent == CallGetAgentDecisionPath

SpecAgent == InitAgent /\ [][NextAgent]_vars

\* The causes of the nodes of S, and the nodes the nodes of S caused.
CausesOf(S) == UNION {store[i] : i \in S \cap Ids}
EffectsOf(S) == {i \in Ids : store[i] \cap S # {}}

\* The number of levels a traversal finds from the action: near, then far.
TraversalDepth(near, far) ==
    IF near = {} THEN 0 ELSE IF far = {} THEN 1 ELSE 2

\* C13: for an existing action the report of GetAgentDecisionPath holds all
\* routing decisions and spike events upstream of the action, all workflow
\* executions and external outputs downstream of it, and TotalDepth is the
\* larger of the backward and the forward traversal depth.
C13_CompleteNeighbourhood ==
    report.returned =>
        LET decisions == CausesOf({actionID})
            spikes    == CausesOf(decisions)
            workflows == EffectsOf({actionID})
            outputs   == EffectsOf(workflows)
        IN  /\ {n.ID : n \in Range(report.path.Decisions)} = decisions
            /\ {n.ID : n \in Range(report.path.SpikeEvents)} = spikes
            /\ {n.ID : n \in Range(report.path.Workflows)} = workflows
            /\ {n.ID : n \in Range(report.path.Outputs)} = outputs
            /\ report.path.TotalDepth =
                   max(TraversalDepth(decisions, spikes),
                       TraversalDepth(workflows, outputs))

----------------------------------------------------------------------------
\* Two TraceCausality calls running concurrently against the same store

\* The frame of a second call whose visited map is the first call's too.
SecondFrameSharedVisited ==
    [path |-> second.path, visited |-> second.visited \cup visited,
     queue |-> second.queue]

\* Lines 96-109: path, visited and queue are locals of the call.
SecondFrame ==
    [path |-> second.path, visited |-> second.visited, queue |-> second.queue]

\* What a step of the second call leaves alone.
FirstCall ==
    <<failing, outputID, depthArg, maxDepth, path, visited, queue, pc, ret,
      fetched, cancelled, views, counts, minOccurrences, patterns, actionID,
      report>>

InitConc ==
    /\ IdleViews /\ IdlePatterns /\ IdleAgent
    /\ store = [i \in Ids |-> {}]
    /\ failing = {}
    /\ outputID \in 1..(NumNodes - 1)
    /\ depthArg \in DepthArgs
    /\ maxDepth = depthArg
    /\ path = NewPath
    /\ visited = {}
    /\ queue = <<>>
    /\ pc = "start"
    /\ ret = NoReturn
    /\ fetched = <<>>
    /\ cancelled = FALSE
    /\ \E out \in {i \in 1..(NumNodes - 1) : i > outputID} :
           second = [NoCall EXCEPT !.outputID = out, !.depthArg = depthArg,
                                   !.maxDepth = depthArg, !.pc = "start"]

SecondEnter ==
    /\ second.pc = "start"
    /\ second' = [second EXCEPT !.maxDepth = NormalizeDepth(second.maxDepth),
                                !.path = NewPath,
                                !.visited = {},
                                !.queue = InitialQueue(second.outputID),
                                !.pc = "loop"]
    /\ UNCHANGED <<store, FirstCall>>

SecondSkip ==
    /\ second.pc = "loop"
    /\ LoopCond(second.queue, second.path, second.maxDepth)
    /\ AlreadyVisited(SecondFrame.visited, Head(second.queue).id)
    /\ LET f == LoopBody(SecondFrame, store, failing)
       IN  second' = [second EXCEPT !.path = f.path, !.visited = f.visited,
                                    !.queue = f.queue]
    /\ UNCHANGED <<store, FirstCall>>

SecondVisit ==
    /\ second.pc = "loop"
    /\ LoopCond(second.queue, second.path, second.maxDepth)
    /\ ~AlreadyVisited(SecondFrame.visited, Head(second.queue).id)
    /\ \E S \in Answers(Head(second.queue).id) :
         /\ store' = Reveal(store, Head(second.queue).id, S)
         /\ LET f == LoopBody(SecondFrame, store', failing)
            IN  second' = [second EXCEPT
                              !.path = f.path, !.visited = f.visited,
                              !.queue = f.queue,
                              !.fetched = Append(@, Head(second.queue).id)]
    /\ UNCHANGED FirstCall

SecondReturn ==
    /\ second.pc = "loop"
    /\ ~LoopCond(second.queue, second.path, second.maxDepth)
    /\ second' = [second EXCEPT
                     !.ret = [returned |-> TRUE, path |-> second.path,
                              err |-> "nil"],
                     !.pc = "done"]
    /\ UNCHANGED <<store, FirstCall>>

NextConc ==
    \/ Enter \/ Skip \/ Visit \/ Return
    \/ SecondEnter \/ SecondSkip \/ SecondVisit \/ SecondReturn

SpecConc == InitConc /\ [][NextConc]_vars

====
